---- MODULE Spec2Model ----
(***************************************************************************)
(* The frontend of the AI app generator: the wizard page (Home), the       *)
(* validation report, the file browser and the projects page, each a React *)
(* component whose state is held in the variables below.  An HTTP request  *)
(* is an entry of `requests` from the moment fetch() is called until the   *)
(* handler's continuation (the code after the await, with its catch and    *)
(* finally blocks) has run; responses arrive in any order.                 *)
(***************************************************************************)
EXTENDS Integers, Sequences, FiniteSets, Bags, TLC

\* ------------------------------------------------------------------ bounds
MaxRequests == 2
MaxProjects == 3
MaxFiles == 3

\* ------------------------------------------------------------- value sets
null == "null"
None == <<>>
Some(x) == <<x>>

Prompts == {"", "library"}
Feedbacks == {"add a field"}

\* A schema definition, reduced to the ordered list of its fields' names.
SchemaDefinition == {<<"id">>, <<"id", "title">>, <<"title", "title">>}

ProjectIds == {"p1", "p2"}
\* A validation result: the success flag and the projectId ("" when absent).
ValidationResult == [success : BOOLEAN, projectId : {"p1", ""}]

Model == "gpt-4o-mini"
\* The models the prompt screen offers, and the params it passes to onSubmit
\* (entityName and operations are passed on unread and left out).
Models == {"gpt-4o-mini", "claude"}
Params == [model : Models]

WizardKinds == {"generate-schema", "refine-schema", "generate-app"}

NoBody == [prompt |-> "", schema |-> None, model |-> ""]
NoSent == [step |-> "", schema |-> None, vr |-> None]
NoReq ==
  [kind |-> "", body |-> NoBody, projectId |-> "", path |-> <<>>, sent |-> NoSent,
   alive |-> FALSE]
NoAlert == ""

\* A file path, as the list of its '/'-separated segments.
Paths == {<<"api.py">>, <<"templates", "index.html">>}
NoFile == <<>>
\* The file list of a project, reduced to the files' paths.
FileLists ==
  {<<>>, <<<<"api.py">>>>, <<<<"api.py">>, <<"templates", "index.html">>>>,
   <<<<"templates", "index.html">>, <<"api.py">>>>}
\* Paths of a project with two files in one folder and with a folder called
\* "constructor", and every list of at most n of them.
TreePaths ==
  {<<"api.py">>, <<"templates", "index.html">>, <<"templates", "base.html">>,
   <<"constructor", "app.js">>}
FileListsUpTo(n) == UNION {[1..k -> TreePaths] : k \in 0..n}
\* The content the backend holds for a file.
ContentOf(path) == IF path = <<"api.py">> THEN "app = FastAPI()" ELSE "<html>"

\* FileBrowser's state: lines 19-22 give the values at mount.
Unmounted ==
  [mounted |-> FALSE, projectId |-> "", files |-> <<>>, selectedFile |-> NoFile,
   fileContent |-> "", loading |-> FALSE, expandedFolders |-> {}]
Mounted(projectId) ==
  [mounted |-> TRUE, projectId |-> projectId, files |-> <<>>, selectedFile |-> NoFile,
   fileContent |-> "", loading |-> TRUE, expandedFolders |-> {"root"}]

\* A project of the projects page, reduced to its id and creation time.
P1 == [id |-> "p1", created_at |-> 1]
P2 == [id |-> "p2", created_at |-> 2]
ProjectLists == {<<>>, <<P1>>, <<P1, P2>>, <<P2, P1>>}
\* A project created at the same time as P2, and every list of at most n of
\* the three projects, in any order and with repetitions.
P3 == [id |-> "p3", created_at |-> 2]
ProjectListsUpTo(n) == UNION {[1..k -> {P1, P2, P3}] : k \in 0..n}

\* How a fetch ends: a 2xx response, a response with another status (500),
\* or a rejected promise (the backend is not reachable).
Outcomes == {"2xx", "non-2xx", "rejected"}
Failed(outcome) == outcome # "2xx"

VARIABLES
  page,              \* the route the tab shows: "home" | "projects"
  currentStep,       \* Home: "prompt" | "mockup" | "report"
  schema,            \* Home: None or Some(SchemaDefinition)
  validationResult,  \* Home: None or Some(ValidationResult)
  isGenerating,      \* Home: BOOLEAN
  requests,          \* the fetches whose continuation has not run yet
  alertMsg,          \* the alert dialog the last step showed, NoAlert if none
  ev,                \* the handler that ran in the last step
  schemaCreated,     \* a generate-schema response arrived since load / Start Over
  appSent,           \* a generate-app request was sent since load / Start Over
  appOk,             \* a generate-app 2xx response arrived since load / Start Over
  selectedModel,     \* the model selected on the prompt screen at the last submit,
                     \* kept while the round can still send a request that names one
  browser,           \* FileBrowser: its state while mounted, Unmounted otherwise
  projects,          \* ProjectsPage: the list of projects
  projectsLoading,   \* ProjectsPage: loading
  selectedProject    \* ProjectsPage: null or a project id

homeVars == <<currentStep, schema, validationResult, isGenerating>>
ghostVars == <<schemaCreated, appSent, appOk, selectedModel>>
projectsVars == <<projects, projectsLoading, selectedProject>>
vars == <<page, currentStep, schema, validationResult, isGenerating, requests, alertMsg,
          ev, schemaCreated, appSent, appOk, selectedModel, browser, projects,
          projectsLoading, selectedProject>>

\* What ran last: a handler called by the user (op), or the continuation of a
\* request of some kind with the outcome of its fetch.
Event(op, r, outcome) == [op |-> op, kind |-> r.kind, outcome |-> outcome]

\* The requests in flight are a bag: responses arrive in any order.
Sent(reqs, r) == reqs (+) SetToBag({r})
Settled(reqs, r) == reqs (-) SetToBag({r})
InFlight == BagToSet(requests)

\* fetch(): the request is on its way; what the wizard held when it was sent
\* is kept with it.
Fetch(kind, body, projectId, path) ==
  [kind |-> kind, body |-> body, projectId |-> projectId, path |-> path,
   sent |-> IF kind \in WizardKinds
              THEN [step |-> currentStep, schema |-> schema, vr |-> validationResult]
              ELSE NoSent,
   alive |-> TRUE]

RoomForRequest == BagCardinality(requests) < MaxRequests

\* ------------------------------------------------------------------- Home

\* The main area renders one step's component; only a rendered component can
\* call its callbacks.
PromptScreenRendered == page = "home" /\ currentStep = "prompt"
MockupEditorRendered == page = "home" /\ currentStep = "mockup" /\ schema # None
ValidationReportRendered == page = "home" /\ currentStep = "report" /\ validationResult # None

\* The prompt form without its check of the prompt.
PromptScreenCanSubmitAnyPrompt(prompt) == ~isGenerating

\* The prompt form's check before it calls onSubmit.
PromptScreenCanSubmit(prompt) == prompt # "" /\ ~isGenerating

\* The mockup editor's Regenerate and Confirm buttons.
MockupEditorCanRequest == ~isGenerating

\* handlePromptSubmit without line 57.
handlePromptSubmitNoFlag(prompt, params) ==
  /\ requests' = Sent(requests,
        Fetch("generate-schema", [prompt |-> prompt, schema |-> None, model |-> Model], "", <<>>))
  /\ selectedModel' = params.model
  /\ alertMsg' = NoAlert
  /\ ev' = Event("handlePromptSubmit", NoReq, "")
  /\ UNCHANGED <<page, currentStep, schema, validationResult, isGenerating, schemaCreated,
                 appSent, appOk, browser, projectsVars>>

\* handlePromptSubmit up to its await: lines 56-69.  The body names the model
\* of line 67; params.model is not read.
handlePromptSubmit(prompt, params) ==
  /\ isGenerating' = TRUE
  /\ requests' = Sent(requests,
        Fetch("generate-schema", [prompt |-> prompt, schema |-> None, model |-> Model], "", <<>>))
  /\ selectedModel' = params.model
  /\ alertMsg' = NoAlert
  /\ ev' = Event("handlePromptSubmit", NoReq, "")
  /\ UNCHANGED <<page, currentStep, schema, validationResult, schemaCreated, appSent, appOk,
                 browser, projectsVars>>

\* The user presses the prompt form's submit button.
PromptScreenSubmit(prompt, params) ==
  /\ PromptScreenRendered
  /\ RoomForRequest \/ ~PromptScreenCanSubmit(prompt)
  /\ IF PromptScreenCanSubmit(prompt)
       THEN handlePromptSubmit(prompt, params)
       ELSE /\ ev' = Event("submit-rejected", NoReq, "")
            /\ alertMsg' = NoAlert
            /\ UNCHANGED <<page, homeVars, requests, ghostVars, browser, projectsVars>>

\* The continuation of handlePromptSubmit that clears isGenerating at the end
\* of its try block instead of in a finally block.
GenerateSchemaResponseNoFinally(r, outcome, generatedSchema) ==
  /\ r.kind = "generate-schema"
  /\ requests' = Settled(requests, r)
  /\ ev' = Event("response", r, outcome)
  /\ IF Failed(outcome)
       THEN /\ alertMsg' = "Failed to generate schema. Make sure the backend is running on port 8000."
            /\ UNCHANGED <<schema, currentStep, schemaCreated, isGenerating>>
       ELSE /\ schema' = Some(generatedSchema)
            /\ currentStep' = "mockup"
            /\ alertMsg' = NoAlert
            /\ schemaCreated' = TRUE
            /\ isGenerating' = FALSE
  /\ UNCHANGED <<page, validationResult, appSent, appOk, browser, projectsVars, selectedModel>>

\* The continuation of handlePromptSubmit without the check of response.ok.
GenerateSchemaResponseUnchecked(r, outcome, generatedSchema) ==
  /\ r.kind = "generate-schema"
  /\ requests' = Settled(requests, r)
  /\ ev' = Event("response", r, outcome)
  /\ schema' = Some(generatedSchema)
  /\ currentStep' = "mockup"
  /\ alertMsg' = NoAlert
  /\ schemaCreated' = TRUE
  /\ isGenerating' = FALSE
  /\ UNCHANGED <<page, validationResult, appSent, appOk, browser, projectsVars, selectedModel>>

\* The continuation of handlePromptSubmit: lines 71-83.
GenerateSchemaResponse(r, outcome, generatedSchema) ==
  /\ r.kind = "generate-schema"
  /\ requests' = Settled(requests, r)
  /\ ev' = Event("response", r, outcome)
  /\ IF Failed(outcome)
       THEN /\ alertMsg' = "Failed to generate schema. Make sure the backend is running on port 8000."
            /\ UNCHANGED <<schema, currentStep, schemaCreated>>
       ELSE /\ schema' = Some(generatedSchema)
            /\ currentStep' = "mockup"
            /\ alertMsg' = NoAlert
            /\ schemaCreated' = TRUE
  /\ isGenerating' = FALSE
  /\ UNCHANGED <<page, validationResult, appSent, appOk, browser, projectsVars, selectedModel>>

handleSchemaUpdate(updatedSchema) ==
  /\ MockupEditorRendered
  /\ schema' = Some(updatedSchema)
  /\ alertMsg' = NoAlert
  /\ ev' = Event("handleSchemaUpdate", NoReq, "")
  /\ UNCHANGED <<page, currentStep, validationResult, isGenerating, requests,
                 schemaCreated, appSent, appOk, browser, projectsVars, selectedModel>>

\* handleRegenerate without line 91.
handleRegenerateNoCheck(feedback) ==
  /\ ev' = Event("handleRegenerate", NoReq, "")
  /\ alertMsg' = NoAlert
  /\ isGenerating' = TRUE
  /\ requests' = Sent(requests,
        Fetch("refine-schema", [prompt |-> feedback, schema |-> schema, model |-> Model], "", <<>>))
  /\ UNCHANGED <<page, currentStep, schema, validationResult, schemaCreated, appSent, appOk,
                 browser, projectsVars, selectedModel>>

\* handleRegenerate up to its await: lines 90-104.
handleRegenerate(feedback) ==
  /\ ev' = Event("handleRegenerate", NoReq, "")
  /\ alertMsg' = NoAlert
  /\ IF schema = None
       THEN UNCHANGED <<isGenerating, requests>>
       ELSE /\ isGenerating' = TRUE
            /\ requests' = Sent(requests,
                  Fetch("refine-schema", [prompt |-> feedback, schema |-> schema, model |-> Model], "", <<>>))
  /\ UNCHANGED <<page, currentStep, schema, validationResult, schemaCreated, appSent, appOk, browser, projectsVars, selectedModel>>

\* The continuation of handleRegenerate without its finally block.
RefineSchemaResponseKeepsFlag(r, outcome, refinedSchema) ==
  /\ r.kind = "refine-schema"
  /\ requests' = Settled(requests, r)
  /\ ev' = Event("response", r, outcome)
  /\ IF Failed(outcome)
       THEN /\ alertMsg' = "Failed to refine schema. Make sure the backend is running."
            /\ UNCHANGED schema
       ELSE /\ schema' = Some(refinedSchema)
            /\ alertMsg' = NoAlert
  /\ UNCHANGED <<page, currentStep, validationResult, isGenerating, schemaCreated, appSent,
                 appOk, browser, projectsVars, selectedModel>>

\* The continuation of handleRegenerate: lines 106-117.
RefineSchemaResponse(r, outcome, refinedSchema) ==
  /\ r.kind = "refine-schema"
  /\ requests' = Settled(requests, r)
  /\ ev' = Event("response", r, outcome)
  /\ IF Failed(outcome)
       THEN /\ alertMsg' = "Failed to refine schema. Make sure the backend is running."
            /\ UNCHANGED schema
       ELSE /\ schema' = Some(refinedSchema)
            /\ alertMsg' = NoAlert
  /\ isGenerating' = FALSE
  /\ UNCHANGED <<page, currentStep, validationResult, schemaCreated, appSent, appOk, browser, projectsVars, selectedModel>>

\* The mockup editor's Regenerate button calls onRegenerate.
MockupEditorRegenerate(feedback) ==
  /\ MockupEditorRendered
  /\ MockupEditorCanRequest
  /\ handleRegenerate(feedback)

\* handleConfirm with a request body that leaves the schema out.
handleConfirmNoSchema ==
  /\ ev' = Event("handleConfirm", NoReq, "")
  /\ alertMsg' = NoAlert
  /\ IF schema = None
       THEN UNCHANGED <<isGenerating, requests, appSent>>
       ELSE /\ isGenerating' = TRUE
            /\ requests' = Sent(requests,
                  Fetch("generate-app", [prompt |-> "", schema |-> None, model |-> Model], "", <<>>))
            /\ appSent' = TRUE
  /\ UNCHANGED <<page, currentStep, schema, validationResult, schemaCreated, appOk,
                 browser, projectsVars, selectedModel>>

\* handleConfirm up to its await: lines 120-133.
handleConfirm ==
  /\ ev' = Event("handleConfirm", NoReq, "")
  /\ alertMsg' = NoAlert
  /\ IF schema = None
       THEN UNCHANGED <<isGenerating, requests, appSent>>
       ELSE /\ isGenerating' = TRUE
            /\ requests' = Sent(requests,
                  Fetch("generate-app", [prompt |-> "", schema |-> schema, model |-> Model], "", <<>>))
            /\ appSent' = TRUE
  /\ UNCHANGED <<page, currentStep, schema, validationResult, schemaCreated, appOk,
                 browser, projectsVars, selectedModel>>

\* The mockup editor's Confirm button calls onConfirm.
MockupEditorConfirm ==
  /\ MockupEditorRendered
  /\ MockupEditorCanRequest
  /\ handleConfirm

\* A component that leaves the screen: the responses of its requests still
\* arrive, and their state updates no longer have a component to update.
Orphaned(r, kinds) == IF r.kind \in kinds THEN [r EXCEPT !.alive = FALSE] ELSE r
Orphan(reqs, kinds) ==
  [o \in {Orphaned(r, kinds) : r \in BagToSet(reqs)} |->
     CopiesIn(o, reqs)
       + (IF o.kind \in kinds /\ ~o.alive THEN CopiesIn([o EXCEPT !.alive = TRUE], reqs) ELSE 0)]

BrowserKinds == {"files", "content"}
ReportKinds == {"report-download", "report-deploy"}
ProjectsKinds == {"projects", "download", "deploy"}

\* FileBrowser's mount: useEffect runs loadFiles, whose fetch is line 32.
FilesFetch(projectId) == Fetch("files", NoBody, projectId, <<>>)

\* The continuation of handleConfirm without line 141: the result is stored
\* and the wizard stays on the mockup step.
GenerateAppResponseStays(r, outcome, result) ==
  /\ r.kind = "generate-app"
  /\ ev' = Event("response", r, outcome)
  /\ requests' = Settled(requests, r)
  /\ IF Failed(outcome)
       THEN /\ alertMsg' = "Failed to generate application. Make sure the backend is running."
            /\ UNCHANGED <<validationResult, appOk>>
       ELSE /\ validationResult' = Some(result)
            /\ alertMsg' = NoAlert
            /\ appOk' = TRUE
  /\ isGenerating' = FALSE
  /\ UNCHANGED <<page, currentStep, schema, schemaCreated, appSent, browser, projectsVars, selectedModel>>

\* The continuation of handleConfirm that shows the report for a successful
\* result only.
GenerateAppResponseOnlySuccess(r, outcome, result) ==
  /\ r.kind = "generate-app"
  /\ ev' = Event("response", r, outcome)
  /\ IF Failed(outcome)
       THEN /\ alertMsg' = "Failed to generate application. Make sure the backend is running."
            /\ requests' = Settled(requests, r)
            /\ UNCHANGED <<validationResult, currentStep, appOk, browser>>
       ELSE /\ validationResult' = Some(result)
            /\ currentStep' = IF result.success THEN "report" ELSE currentStep
            /\ alertMsg' = NoAlert
            /\ appOk' = TRUE
            /\ IF result.success /\ result.projectId # ""
                 THEN /\ browser' = Mounted(result.projectId)
                      /\ requests' = Sent(Settled(requests, r), FilesFetch(result.projectId))
                 ELSE /\ browser' = Unmounted
                      /\ requests' = Settled(requests, r)
  /\ isGenerating' = FALSE
  /\ UNCHANGED <<page, schema, schemaCreated, appSent, projectsVars, selectedModel>>

\* The continuation of handleConfirm without the check of response.ok.
GenerateAppResponseUnchecked(r, outcome, result) ==
  /\ r.kind = "generate-app"
  /\ ev' = Event("response", r, outcome)
  /\ validationResult' = Some(result)
  /\ currentStep' = "report"
  /\ alertMsg' = NoAlert
  /\ appOk' = TRUE
  /\ IF result.success /\ result.projectId # ""
       THEN /\ browser' = Mounted(result.projectId)
            /\ requests' = Sent(Settled(requests, r), FilesFetch(result.projectId))
       ELSE /\ browser' = Unmounted
            /\ requests' = Settled(requests, r)
  /\ isGenerating' = FALSE
  /\ UNCHANGED <<page, schema, schemaCreated, appSent, projectsVars, selectedModel>>

\* The continuation of handleConfirm: lines 135-147.  The report step renders
\* ValidationReport, which mounts a FileBrowser for a successful result that
\* has a projectId (validation-report lines 396-401).  The report step sends no
\* request that names a model, so the record of the selection ends here.
GenerateAppResponse(r, outcome, result) ==
  /\ r.kind = "generate-app"
  /\ ev' = Event("response", r, outcome)
  /\ IF Failed(outcome)
       THEN /\ alertMsg' = "Failed to generate application. Make sure the backend is running."
            /\ requests' = Settled(requests, r)
            /\ UNCHANGED <<validationResult, currentStep, appOk, browser, selectedModel>>
       ELSE /\ validationResult' = Some(result)
            /\ currentStep' = "report"
            /\ alertMsg' = NoAlert
            /\ appOk' = TRUE
            /\ selectedModel' = Model
            /\ IF result.success /\ result.projectId # ""
                 THEN /\ browser' = Mounted(result.projectId)
                      /\ requests' = Sent(Settled(requests, r), FilesFetch(result.projectId))
                 ELSE /\ browser' = Unmounted
                      /\ requests' = Settled(requests, r)
  /\ isGenerating' = FALSE
  /\ UNCHANGED <<page, schema, schemaCreated, appSent, projectsVars>>

\* handleStartOver without line 151.
handleStartOverKeepsStep ==
  /\ ValidationReportRendered
  /\ schema' = None
  /\ validationResult' = None
  /\ browser' = Unmounted
  /\ requests' = Orphan(requests, BrowserKinds \cup ReportKinds)
  /\ alertMsg' = NoAlert
  /\ ev' = Event("handleStartOver", NoReq, "")
  /\ schemaCreated' = FALSE
  /\ appSent' = FALSE
  /\ appOk' = FALSE
  /\ selectedModel' = Model
  /\ UNCHANGED <<page, currentStep, isGenerating, projectsVars>>

\* handleStartOver without line 152.
handleStartOverKeepsSchema ==
  /\ ValidationReportRendered
  /\ currentStep' = "prompt"
  /\ validationResult' = None
  /\ browser' = Unmounted
  /\ requests' = Orphan(requests, BrowserKinds \cup ReportKinds)
  /\ alertMsg' = NoAlert
  /\ ev' = Event("handleStartOver", NoReq, "")
  /\ schemaCreated' = FALSE
  /\ appSent' = FALSE
  /\ appOk' = FALSE
  /\ selectedModel' = Model
  /\ UNCHANGED <<page, schema, isGenerating, projectsVars>>

handleStartOver ==
  /\ ValidationReportRendered
  /\ currentStep' = "prompt"
  /\ schema' = None
  /\ validationResult' = None
  /\ browser' = Unmounted
  /\ requests' = Orphan(requests, BrowserKinds \cup ReportKinds)
  /\ alertMsg' = NoAlert
  /\ ev' = Event("handleStartOver", NoReq, "")
  /\ schemaCreated' = FALSE
  /\ appSent' = FALSE
  /\ appOk' = FALSE
  /\ selectedModel' = Model
  /\ UNCHANGED <<page, isGenerating, projectsVars>>

\* ------------------------------------------------------- ValidationReport

\* The Download and Deploy buttons are rendered for a successful result only
\* (validation-report lines 405-426).
ReportActionsRendered == ValidationReportRendered /\ validationResult[1].success

\* The report's handler without its check of the projectId.
ReportHandleNoIdCheck(kind, op) ==
  /\ ReportActionsRendered
  /\ ev' = Event(op, NoReq, "")
  /\ alertMsg' = NoAlert
  /\ requests' = Sent(requests, Fetch(kind, NoBody, validationResult[1].projectId, <<>>))
  /\ UNCHANGED <<page, homeVars, ghostVars, browser, projectsVars>>

\* ValidationReport.handleDownload (lines 237-245) and handleDeploy (lines
\* 268-278) up to their await.
ReportHandle(kind, op) ==
  /\ ReportActionsRendered
  /\ ev' = Event(op, NoReq, "")
  /\ IF validationResult[1].projectId = ""
       THEN /\ alertMsg' = "Project ID not found"
            /\ UNCHANGED requests
       ELSE /\ alertMsg' = NoAlert
            /\ requests' = Sent(requests,
                  Fetch(kind, NoBody, validationResult[1].projectId, <<>>))
  /\ UNCHANGED <<page, homeVars, ghostVars, browser, projectsVars>>

ReportHandleDownload == ReportHandle("report-download", "ValidationReport.handleDownload")
ReportHandleDeploy == ReportHandle("report-deploy", "ValidationReport.handleDeploy")

\* The continuation of ValidationReport.handleDownload: lines 247-265.
ReportDownloadResponse(r, outcome) ==
  /\ r.kind = "report-download"
  /\ requests' = Settled(requests, r)
  /\ ev' = Event("response", r, outcome)
  /\ alertMsg' = IF Failed(outcome)
                   THEN "Failed to download project. Make sure the backend is running."
                   ELSE NoAlert
  /\ UNCHANGED <<page, homeVars, ghostVars, browser, projectsVars>>

\* The continuation of ValidationReport.handleDeploy: lines 280-294.
ReportDeployResponse(r, outcome) ==
  /\ r.kind = "report-deploy"
  /\ requests' = Settled(requests, r)
  /\ ev' = Event("response", r, outcome)
  /\ alertMsg' = IF Failed(outcome)
                   THEN "Failed to get deployment instructions. Make sure the backend is running."
                   ELSE "Deployment Instructions"
  /\ UNCHANGED <<page, homeVars, ghostVars, browser, projectsVars>>

\* ------------------------------------------------------------ FileBrowser

\* fileTree (lines 96-105): the folder a file is listed under.
FolderOf(path) == IF Len(path) > 1 THEN path[1] ELSE "root"

\* fileTree starts as the object literal {} (line 97), so fileTree[folder]
\* reads a property of Object.prototype when folder names one and no group
\* of that name was made: a value that is truthy and has no push method.
ObjectPrototypeKeys ==
  {"constructor", "__proto__", "toString", "toLocaleString", "valueOf",
   "hasOwnProperty", "isPrototypeOf", "propertyIsEnumerable"}

\* The forEach loop of lines 98-105: the groups made so far, and whether
\* line 104 has thrown a TypeError (which ends the loop and the render).
RECURSIVE fileTreeOf(_)
fileTreeOf(files) ==
  IF files = <<>> THEN [thrown |-> FALSE, groups |-> [folder \in {} |-> <<>>]]
  ELSE LET before == fileTreeOf(SubSeq(files, 1, Len(files) - 1))
           file == files[Len(files)]
           folder == FolderOf(file)
       IN  IF before.thrown THEN before
           ELSE IF folder \in DOMAIN before.groups
             THEN [before EXCEPT !.groups[folder] = Append(@, file)]
           ELSE IF folder \in ObjectPrototypeKeys
             THEN [before EXCEPT !.thrown = TRUE]
           ELSE [before EXCEPT !.groups = @ @@ (folder :> <<file>>)]

fileTree == fileTreeOf(browser.files).groups
RenderThrows == fileTreeOf(browser.files).thrown

\* The tree is rendered once loading is over (lines 117-123) and the render
\* has not thrown.
TreeRendered == browser.mounted /\ ~browser.loading /\ ~RenderThrows

toggleFolder(folder) ==
  /\ TreeRendered
  /\ folder \in DOMAIN fileTree
  /\ browser' = [browser EXCEPT !.expandedFolders =
                    IF folder \in @ THEN @ \ {folder} ELSE @ \cup {folder}]
  /\ alertMsg' = NoAlert
  /\ ev' = Event("toggleFolder", NoReq, "")
  /\ UNCHANGED <<page, homeVars, ghostVars, requests, projectsVars>>

ContentFetch(projectId, filePath) == Fetch("content", NoBody, projectId, filePath)

\* loadFileContent up to its await: lines 54-59.
Selecting(b, filePath) == [b EXCEPT !.selectedFile = filePath, !.fileContent = "Loading..."]

\* The user clicks a file of an expanded folder (lines 151-166).
loadFileContent(filePath) ==
  /\ TreeRendered
  /\ \E folder \in DOMAIN fileTree \cap browser.expandedFolders :
        \E j \in 1..Len(fileTree[folder]) : fileTree[folder][j] = filePath
  /\ browser' = Selecting(browser, filePath)
  /\ requests' = Sent(requests, ContentFetch(browser.projectId, filePath))
  /\ alertMsg' = NoAlert
  /\ ev' = Event("loadFileContent", NoReq, "")
  /\ UNCHANGED <<page, homeVars, ghostVars, projectsVars>>

\* The continuation of loadFiles without lines 42-45.
LoadFilesResponseNoSelect(r, outcome, data) ==
  /\ r.kind = "files"
  /\ ev' = Event("response", r, outcome)
  /\ alertMsg' = NoAlert
  /\ requests' = Settled(requests, r)
  /\ browser' =
       IF ~r.alive THEN browser
       ELSE IF Failed(outcome) THEN [browser EXCEPT !.loading = FALSE]
       ELSE [browser EXCEPT !.files = data, !.loading = FALSE]
  /\ UNCHANGED <<page, homeVars, ghostVars, projectsVars>>

\* The continuation of loadFiles, calling loadFiles again from its catch block.
LoadFilesResponseRetry(r, outcome, data) ==
  /\ r.kind = "files"
  /\ ev' = Event("response", r, outcome)
  /\ alertMsg' = NoAlert
  /\ IF Failed(outcome)
       THEN /\ requests' = Sent(Settled(requests, r), r)
            /\ browser' = IF r.alive THEN [browser EXCEPT !.loading = FALSE] ELSE browser
       ELSE /\ requests' =
                 IF Len(data) > 0
                   THEN Sent(Settled(requests, r),
                          [ContentFetch(r.projectId, data[1]) EXCEPT !.alive = r.alive])
                   ELSE Settled(requests, r)
            /\ browser' =
                 IF ~r.alive THEN browser
                 ELSE IF Len(data) > 0
                   THEN [Selecting(browser, data[1]) EXCEPT !.files = data, !.loading = FALSE]
                   ELSE [browser EXCEPT !.files = data, !.loading = FALSE]
  /\ UNCHANGED <<page, homeVars, ghostVars, projectsVars>>

\* The continuation of loadFiles: lines 34-50.  On an unmounted component the
\* state updates are dropped, the call of loadFileContent is not.
LoadFilesResponse(r, outcome, data) ==
  /\ r.kind = "files"
  /\ ev' = Event("response", r, outcome)
  /\ alertMsg' = NoAlert
  /\ IF Failed(outcome)
       THEN /\ requests' = Settled(requests, r)
            /\ browser' = IF r.alive THEN [browser EXCEPT !.loading = FALSE]
                          ELSE browser
       ELSE /\ requests' =
                 IF Len(data) > 0
                   THEN Sent(Settled(requests, r),
                          [ContentFetch(r.projectId, data[1])
                             EXCEPT !.alive = r.alive])
                   ELSE Settled(requests, r)
            /\ browser' =
                 IF ~r.alive THEN browser
                 ELSE IF Len(data) > 0
                   THEN [Selecting(browser, data[1]) EXCEPT !.files = data, !.loading = FALSE]
                   ELSE [browser EXCEPT !.files = data, !.loading = FALSE]
  /\ UNCHANGED <<page, homeVars, ghostVars, projectsVars>>

\* The continuation of loadFileContent: lines 61-71.
FileContentResponse(r, outcome) ==
  /\ r.kind = "content"
  /\ requests' = Settled(requests, r)
  /\ ev' = Event("response", r, outcome)
  /\ alertMsg' = NoAlert
  /\ browser' =
       IF ~r.alive THEN browser
       ELSE IF Failed(outcome)
         THEN [browser EXCEPT !.fileContent = "Error loading file content"]
         ELSE [browser EXCEPT !.fileContent = ContentOf(r.path)]
  /\ UNCHANGED <<page, homeVars, ghostVars, projectsVars>>

\* ----------------------------------------------------------- ProjectsPage

\* The insertion step of a sort whose comparator is a.created_at - b.created_at.
RECURSIVE InsertAsc(_, _)
InsertAsc(sorted, p) ==
  IF sorted = <<>> THEN <<p>>
  ELSE IF Head(sorted).created_at <= p.created_at
         THEN <<Head(sorted)>> \o InsertAsc(Tail(sorted), p)
         ELSE <<p>> \o sorted

\* Array.prototype.sort with (a, b) => b.created_at - a.created_at (line 34):
\* a stable sort, newest first.
RECURSIVE InsertDesc(_, _)
InsertDesc(sorted, p) ==
  IF sorted = <<>> THEN <<p>>
  ELSE IF Head(sorted).created_at >= p.created_at
         THEN <<Head(sorted)>> \o InsertDesc(Tail(sorted), p)
         ELSE <<p>> \o sorted
RECURSIVE SortDesc(_)
SortDesc(list) ==
  IF list = <<>> THEN <<>>
  ELSE InsertDesc(SortDesc(SubSeq(list, 1, Len(list) - 1)), list[Len(list)])

\* The list view (lines 111-220) is shown while no project is selected; the
\* project cards are part of it once loading is over.
ListRendered == page = "projects" /\ selectedProject = null
CardRendered(projectId) ==
  /\ ListRendered
  /\ ~projectsLoading
  /\ \E j \in 1..Len(projects) : projects[j].id = projectId

\* The continuation of loadProjects that calls setLoading(false) at the end of
\* its try block instead of in a finally block.
LoadProjectsResponseNoFinally(r, outcome, data) ==
  /\ r.kind = "projects"
  /\ requests' = Settled(requests, r)
  /\ ev' = Event("response", r, outcome)
  /\ alertMsg' = IF Failed(outcome)
                   THEN "Failed to load projects. Make sure the backend is running."
                   ELSE NoAlert
  /\ projects' = IF r.alive /\ ~Failed(outcome) THEN SortDesc(data) ELSE projects
  /\ projectsLoading' = IF r.alive /\ ~Failed(outcome) THEN FALSE ELSE projectsLoading
  /\ UNCHANGED <<page, homeVars, ghostVars, browser, selectedProject>>

\* The continuation of loadProjects: lines 31-40.
LoadProjectsResponse(r, outcome, data) ==
  /\ r.kind = "projects"
  /\ requests' = Settled(requests, r)
  /\ ev' = Event("response", r, outcome)
  /\ alertMsg' = IF Failed(outcome)
                   THEN "Failed to load projects. Make sure the backend is running."
                   ELSE NoAlert
  /\ projects' = IF r.alive /\ ~Failed(outcome) THEN SortDesc(data) ELSE projects
  /\ projectsLoading' = IF r.alive THEN FALSE ELSE projectsLoading
  /\ UNCHANGED <<page, homeVars, ghostVars, browser, selectedProject>>

ProjectsHandle(kind, op, projectId) ==
  /\ CardRendered(projectId)
  /\ requests' = Sent(requests, Fetch(kind, NoBody, projectId, <<>>))
  /\ alertMsg' = NoAlert
  /\ ev' = Event(op, NoReq, "")
  /\ UNCHANGED <<page, homeVars, ghostVars, browser, projectsVars>>

handleDownload(projectId) == ProjectsHandle("download", "handleDownload", projectId)
handleDeploy(projectId) == ProjectsHandle("deploy", "handleDeploy", projectId)

\* The continuation of handleDownload: lines 46-60.
DownloadResponse(r, outcome) ==
  /\ r.kind = "download"
  /\ requests' = Settled(requests, r)
  /\ ev' = Event("response", r, outcome)
  /\ alertMsg' = IF Failed(outcome) THEN "Failed to download project" ELSE NoAlert
  /\ UNCHANGED <<page, homeVars, ghostVars, browser, projectsVars>>

\* The continuation of handleDeploy: lines 68-77.
DeployResponse(r, outcome) ==
  /\ r.kind = "deploy"
  /\ requests' = Settled(requests, r)
  /\ ev' = Event("response", r, outcome)
  /\ alertMsg' = IF Failed(outcome) THEN "Failed to get deployment instructions"
                 ELSE "Deployment Instructions"
  /\ UNCHANGED <<page, homeVars, ghostVars, browser, projectsVars>>

\* handleDelete that takes the project off the list once the user confirms.
handleDeleteRemoves(projectId, confirmed) ==
  /\ CardRendered(projectId)
  /\ alertMsg' = NoAlert
  /\ ev' = Event("handleDelete", NoReq, "")
  /\ projects' = IF confirmed THEN SelectSeq(projects, LAMBDA p : p.id # projectId)
                  ELSE projects
  /\ UNCHANGED <<page, homeVars, ghostVars, requests, browser, projectsLoading,
                 selectedProject>>

\* confirm() answers `confirmed`; nothing is deleted either way.
handleDelete(projectId, confirmed) ==
  /\ CardRendered(projectId)
  /\ alertMsg' = IF confirmed THEN "Delete functionality coming soon!" ELSE NoAlert
  /\ ev' = Event("handleDelete", NoReq, "")
  /\ UNCHANGED <<page, homeVars, ghostVars, requests, browser, projectsVars>>

\* The View button (line 179): the page now renders a FileBrowser.
ViewProject(projectId) ==
  /\ CardRendered(projectId)
  /\ selectedProject' = projectId
  /\ browser' = Mounted(projectId)
  /\ requests' = Sent(requests, FilesFetch(projectId))
  /\ alertMsg' = NoAlert
  /\ ev' = Event("View", NoReq, "")
  /\ UNCHANGED <<page, homeVars, ghostVars, projects, projectsLoading>>

\* The Back to Projects button (line 95).
BackToProjects ==
  /\ page = "projects"
  /\ selectedProject # null
  /\ selectedProject' = null
  /\ browser' = Unmounted
  /\ requests' = Orphan(requests, BrowserKinds)
  /\ alertMsg' = NoAlert
  /\ ev' = Event("BackToProjects", NoReq, "")
  /\ UNCHANGED <<page, homeVars, ghostVars, projects, projectsLoading>>

\* The Back to Generator / Create New Project links (lines 126, 149): the
\* projects page leaves the screen and Home is mounted.
LinkToGenerator ==
  /\ ListRendered
  /\ page' = "home"
  /\ projects' = <<>>
  /\ projectsLoading' = FALSE
  /\ requests' = Orphan(requests, ProjectsKinds)
  /\ alertMsg' = NoAlert
  /\ ev' = Event("Link", NoReq, "")
  /\ UNCHANGED <<homeVars, ghostVars, browser, selectedProject>>

\* ---------------------------------------------------------- specification

HomeInit ==
  /\ currentStep = "prompt"
  /\ schema = None
  /\ validationResult = None
  /\ isGenerating = FALSE
  /\ schemaCreated = FALSE
  /\ appSent = FALSE
  /\ appOk = FALSE
  /\ selectedModel = Model

\* The tab is opened on one of the two routes.  The projects page runs
\* loadProjects from its mount effect (lines 24-26).
Init ==
  /\ HomeInit
  /\ browser = Unmounted
  /\ alertMsg = NoAlert
  /\ ev = Event("load", NoReq, "")
  /\ selectedProject = null
  /\ projects = <<>>
  /\ \/ /\ page = "home"
        /\ projectsLoading = FALSE
        /\ requests = EmptyBag
     \/ /\ page = "projects"
        /\ projectsLoading = TRUE
        /\ requests = SetToBag({[kind |-> "projects", body |-> NoBody, projectId |-> "",
                                  path |-> <<>>, sent |-> NoSent, alive |-> TRUE]})

\* RoomForRequest bounds the requests in flight; it is no condition of the code.
Next ==
  \/ \E prompt \in Prompts, params \in Params : PromptScreenSubmit(prompt, params)
  \/ \E updatedSchema \in SchemaDefinition : handleSchemaUpdate(updatedSchema)
  \/ \E feedback \in Feedbacks : RoomForRequest /\ MockupEditorRegenerate(feedback)
  \/ RoomForRequest /\ MockupEditorConfirm
  \/ handleStartOver
  \/ RoomForRequest /\ ReportHandleDownload
  \/ RoomForRequest /\ ReportHandleDeploy
  \/ \E folder \in {"root", "templates"} : toggleFolder(folder)
  \/ \E filePath \in Paths : RoomForRequest /\ loadFileContent(filePath)
  \/ \E projectId \in ProjectIds : RoomForRequest /\ handleDownload(projectId)
  \/ \E projectId \in ProjectIds : RoomForRequest /\ handleDeploy(projectId)
  \/ \E projectId \in ProjectIds, confirmed \in BOOLEAN : handleDelete(projectId, confirmed)
  \/ \E projectId \in ProjectIds : RoomForRequest /\ ViewProject(projectId)
  \/ BackToProjects
  \/ LinkToGenerator
  \/ \E r \in InFlight, outcome \in Outcomes, generatedSchema \in SchemaDefinition :
        GenerateSchemaResponse(r, outcome, generatedSchema)
  \/ \E r \in InFlight, outcome \in Outcomes, refinedSchema \in SchemaDefinition :
        RefineSchemaResponse(r, outcome, refinedSchema)
  \/ \E r \in InFlight, outcome \in Outcomes, result \in ValidationResult :
        GenerateAppResponse(r, outcome, result)
  \/ \E r \in InFlight, outcome \in Outcomes : ReportDownloadResponse(r, outcome)
  \/ \E r \in InFlight, outcome \in Outcomes : ReportDeployResponse(r, outcome)
  \/ \E r \in InFlight, outcome \in Outcomes, data \in FileLists :
        LoadFilesResponse(r, outcome, data)
  \/ \E r \in InFlight, outcome \in Outcomes : FileContentResponse(r, outcome)
  \/ \E r \in InFlight, outcome \in Outcomes, data \in ProjectLists :
        LoadProjectsResponse(r, outcome, data)
  \/ \E r \in InFlight, outcome \in Outcomes : DownloadResponse(r, outcome)
  \/ \E r \in InFlight, outcome \in Outcomes : DeployResponse(r, outcome)

Spec == Init /\ [][Next]_vars

\* The handlers of the mockup step as functions of Home's state: apart from
\* the steps of Next, handleRegenerate and handleConfirm are called while Home
\* holds no schema, which no button of a rendered component does.
NextDirect ==
  \/ Next
  \/ \E feedback \in Feedbacks :
        page = "home" /\ schema = None /\ RoomForRequest /\ handleRegenerate(feedback)
  \/ page = "home" /\ schema = None /\ RoomForRequest /\ handleConfirm

SpecDirect == Init /\ [][NextDirect]_vars

\* The projects page on its own, with the backend returning any list of at
\* most MaxProjects projects.
InitProjects == Init /\ page = "projects"

NextProjects ==
  \/ \E r \in InFlight, outcome \in Outcomes, data \in ProjectListsUpTo(MaxProjects) :
        LoadProjectsResponse(r, outcome, data)
  \/ \E projectId \in {"p1", "p2", "p3"}, confirmed \in BOOLEAN :
        handleDelete(projectId, confirmed)
  \/ \E projectId \in {"p1", "p2", "p3"} : RoomForRequest /\ handleDeploy(projectId)
  \/ \E r \in InFlight, outcome \in Outcomes : DeployResponse(r, outcome)

SpecProjects == InitProjects /\ [][NextProjects]_vars

\* The file browser on its own, just mounted by the View button of project
\* p1, with the backend returning any list of at most MaxFiles files.
InitFileTree ==
  /\ HomeInit
  /\ page = "projects"
  /\ projects = <<P1>>
  /\ projectsLoading = FALSE
  /\ selectedProject = "p1"
  /\ browser = Mounted("p1")
  /\ requests = SetToBag({[kind |-> "files", body |-> NoBody, projectId |-> "p1",
                            path |-> <<>>, sent |-> NoSent, alive |-> TRUE]})
  /\ alertMsg = NoAlert
  /\ ev = Event("View", NoReq, "")

NextFileTree ==
  \/ \E r \in InFlight, outcome \in Outcomes, data \in FileListsUpTo(MaxFiles) :
        LoadFilesResponse(r, outcome, data)
  \/ \E folder \in {"root", "templates", "constructor"} : toggleFolder(folder)
  \/ \E filePath \in TreePaths : RoomForRequest /\ loadFileContent(filePath)
  \/ \E r \in InFlight, outcome \in Outcomes : FileContentResponse(r, outcome)

SpecFileTree == InitFileTree /\ [][NextFileTree]_vars

\* ------------------------------------------------------------ properties

\* The last step ran the continuation of a request that failed.
FailureHandled == ev.op = "response" /\ Failed(ev.outcome)

\* This step runs the continuation of the request r.
ResponseStep(r) ==
  /\ r \in InFlight
  /\ ev' = Event("response", r, ev'.outcome)
  /\ CopiesIn(r, requests') = CopiesIn(r, requests) - 1

FailureStep(r) == ResponseStep(r) /\ Failed(ev'.outcome)
SuccessStep(r) == ResponseStep(r) /\ ev'.outcome = "2xx"

\* C1 as stated: whenever a request of any kind has failed, the handler has
\* shown an alert dialog.
C1_AlertOnEveryFailure == FailureHandled => alertMsg # NoAlert

\* C2 as stated: when a wizard request fails, currentStep, schema and
\* validationResult are what they were when the request was sent.
C2_FailureRestoresSentState ==
  [][\A r \in InFlight :
       (r.kind \in WizardKinds /\ FailureStep(r)) =>
          /\ currentStep' = r.sent.step
          /\ schema' = r.sent.schema
          /\ validationResult' = r.sent.vr]_vars

\* C2, amended: when a wizard request fails, its handler changes none of
\* currentStep, schema and validationResult; currentStep and validationResult
\* are also what they were when the request was sent (schema is what the user
\* last edited it to).
C2_FailureChangesNothing ==
  [][\A r \in InFlight :
       (r.kind \in WizardKinds /\ FailureStep(r)) =>
          /\ currentStep' = currentStep /\ currentStep' = r.sent.step
          /\ schema' = schema
          /\ validationResult' = validationResult /\ validationResult' = r.sent.vr]_vars

C2_Witness ==
  /\ FailureHandled
  /\ ev.kind = "generate-schema"
  /\ ev.outcome = "non-2xx"
  /\ currentStep = "prompt"
  /\ schema = None

\* C3: submitting the empty prompt sends no request and leaves the wizard on
\* the prompt step with no schema.
C3_EmptyPromptRejected ==
  [][(\E params \in Params : PromptScreenSubmit("", params)) =>
       /\ requests' = requests
       /\ currentStep' = "prompt"
       /\ schema' = None]_vars

C3_Witness ==
  /\ ev.op = "submit-rejected"
  /\ ~isGenerating
  /\ currentStep = "prompt"
  /\ schema = None
  /\ requests = EmptyBag

WizardInFlight == {r \in InFlight : r.kind \in WizardKinds}

\* C4: at most one generate-schema, refine-schema or generate-app request is
\* in flight, and isGenerating is true while it is.
C4_OneWizardRequest ==
  /\ Cardinality(WizardInFlight) <= 1
  /\ \A r \in WizardInFlight : CopiesIn(r, requests) = 1 /\ isGenerating

C4_Witness ==
  /\ isGenerating
  /\ \E r \in WizardInFlight : r.kind = "refine-schema"
  /\ BagCardinality(requests) < MaxRequests

\* C5: the step that handles a failed request only takes that request out of
\* the requests in flight; it starts none.
C5_NoRetry ==
  [][(ev'.op = "response" /\ Failed(ev'.outcome)) =>
       \E r \in InFlight : r.kind = ev'.kind /\ requests' = Settled(requests, r)]_vars

C5_Witness ==
  /\ FailureHandled
  /\ ev.kind = "files"
  /\ browser.mounted
  /\ ~browser.loading
  /\ requests = EmptyBag

C7_EditSurvivesRefine ==
  [][\A r \in InFlight :
       (r.kind = "refine-schema" /\ SuccessStep(r) /\ schema # r.sent.schema) =>
          schema' = schema]_vars

\* C8: from load and from every Start Over until the next 2xx generate-schema
\* response, the held schema is null.
C8_NullUntilGenerated == ~schemaCreated => schema = None

C8_Witness ==
  /\ ev.op = "handleStartOver"
  /\ ~schemaCreated
  /\ schema = None

\* C9 as stated: a generate-app request is sent only if none was sent since
\* load or the last Start Over.
C9_OneAppRequest ==
  [][(ev'.op = "handleConfirm" /\ requests' # requests) => ~appSent]_vars

\* C9, amended: between load or a Start Over and the next Start Over at most
\* one generate-app request gets a 2xx response.
C9_OneAppResponse ==
  [][\A r \in InFlight : (r.kind = "generate-app" /\ SuccessStep(r)) => ~appOk]_vars

C9_Witness ==
  /\ appOk
  /\ ev = [op |-> "response", kind |-> "generate-app", outcome |-> "2xx"]
  /\ currentStep = "report"

UniqueNames(fields) ==
  \A a, b \in 1..Len(fields) : a # b => fields[a] # fields[b]

\* C10 as stated: the held schema, and every schema in the body of a request
\* in flight, has no two fields of the same name.
C10_UniqueFieldNames ==
  /\ schema # None => UniqueNames(schema[1])
  /\ \A r \in InFlight : r.body.schema # None => UniqueNames(r.body.schema[1])

\* C11: the request that Regenerate or Confirm sends is a refine-schema or a
\* generate-app request whose body carries the schema the wizard holds when
\* the action is taken.
C11_RequestCarriesHeldSchema ==
  [][(ev'.op \in {"handleRegenerate", "handleConfirm"} /\ requests' # requests) =>
       \E r \in BagToSet(requests') :
          /\ requests' = Sent(requests, r)
          /\ r.kind = IF ev'.op = "handleRegenerate" THEN "refine-schema" ELSE "generate-app"
          /\ schema # None
          /\ r.body.schema = schema]_vars

C11_Witness ==
  /\ ev.op = "handleConfirm"
  /\ schema = Some(<<"id", "title">>)
  /\ \E r \in InFlight :
        r.kind = "generate-app" /\ r.sent.step = "mockup" /\ r.body.schema = schema

\* C12 as stated: every generate-schema, refine-schema and generate-app
\* request names the model the user selected on the prompt screen.
C12_SelectedModelSent ==
  \A r \in InFlight : r.kind \in WizardKinds => r.body.model = selectedModel

\* C13: a 2xx refine-schema response arrives on the mockup step, puts a schema
\* in place, changes neither the step nor validationResult, and leaves the
\* mockup editor rendered with Regenerate and Confirm available.
C13_RefineKeepsMockupStep ==
  [][\A r \in InFlight :
       (r.kind = "refine-schema" /\ SuccessStep(r)) =>
          /\ schema' \in {Some(s) : s \in SchemaDefinition}
          /\ currentStep = "mockup" /\ currentStep' = "mockup"
          /\ validationResult' = validationResult
          /\ MockupEditorRendered'
          /\ MockupEditorCanRequest']_vars

C13_Witness ==
  /\ ev = [op |-> "response", kind |-> "refine-schema", outcome |-> "2xx"]
  /\ MockupEditorRendered
  /\ MockupEditorCanRequest
  /\ validationResult = None

\* C14 as stated: while a file is selected and the pane shows neither
\* "Loading..." nor the error text, the pane shows the content of the selected
\* file.
C14_ContentOfSelectedFile ==
  (/\ browser.mounted
   /\ browser.selectedFile # NoFile
   /\ browser.fileContent \notin {"Loading...", "Error loading file content"})
    => browser.fileContent = ContentOf(browser.selectedFile)

\* C15 as stated: on the mockup step the user can take a step back to the
\* prompt step, and on the report step a step back to the mockup step, that
\* keeps the held schema.
C15_CanGoBack ==
  /\ MockupEditorRendered =>
        ENABLED (Next /\ currentStep' = "prompt" /\ schema' = schema)
  /\ ValidationReportRendered =>
        ENABLED (Next /\ currentStep' = "mockup" /\ schema' = schema)

\* C16: a 2xx generate-app response stores a result as validationResult and
\* moves the wizard to the report step, whatever the result's success flag.
C16_ReportOnEvery2xx ==
  [][\A r \in InFlight :
       (r.kind = "generate-app" /\ SuccessStep(r)) =>
          /\ validationResult' \in {Some(result) : result \in ValidationResult}
          /\ currentStep' = "report"
          /\ ValidationReportRendered']_vars

C16_Witness ==
  /\ ev = [op |-> "response", kind |-> "generate-app", outcome |-> "2xx"]
  /\ ValidationReportRendered
  /\ ~validationResult[1].success
  /\ ~ReportActionsRendered

\* C17: isGenerating is true exactly while a generate-schema, refine-schema or
\* generate-app request is in flight.
C17_GeneratingIffInFlight == isGenerating <=> WizardInFlight # {}

C17_Witness ==
  /\ ev.op = "response"
  /\ ev.kind = "generate-app"
  /\ Failed(ev.outcome)
  /\ ~isGenerating
  /\ WizardInFlight = {}

\* C18: on the mockup step a schema is held, and on the report step a
\* validation result is held.
C18_DisplayedStepHasData ==
  /\ currentStep = "mockup" => schema # None
  /\ currentStep = "report" => validationResult # None

\* A response of the report's Download, sent before Start Over, arrives on the
\* mockup step of the next round.
C18_Witness ==
  /\ ev.op = "response"
  /\ ev.kind = "report-download"
  /\ currentStep = "mockup"
  /\ schema # None
  /\ validationResult = None

\* C19: called while the held schema is null, handleRegenerate and
\* handleConfirm send no request and change none of currentStep, schema,
\* validationResult and isGenerating.
C19_NullSchemaNoOp ==
  [][(ev'.op \in {"handleRegenerate", "handleConfirm"} /\ schema = None) =>
       /\ requests' = requests
       /\ UNCHANGED <<currentStep, schema, validationResult, isGenerating>>]_vars

C19_Witness ==
  /\ ev.op = "handleRegenerate"
  /\ schema = None
  /\ currentStep = "prompt"
  /\ isGenerating
  /\ \E r \in InFlight : r.kind = "generate-schema"

ReportOps == {"ValidationReport.handleDownload", "ValidationReport.handleDeploy"}

\* C20: the report's Download and Deploy handlers run for a successful result
\* only; without a projectId they alert "Project ID not found" and send
\* nothing, otherwise they send one request for that projectId; no download or
\* deploy request of the report is without a projectId.
C20_ReportRequestsNeedProject ==
  [][/\ ev'.op \in ReportOps =>
          /\ validationResult # None
          /\ validationResult[1].success
          /\ IF validationResult[1].projectId = ""
               THEN alertMsg' = "Project ID not found" /\ requests' = requests
               ELSE \E r \in BagToSet(requests') :
                       /\ requests' = Sent(requests, r)
                       /\ r.kind \in ReportKinds
                       /\ r.projectId = validationResult[1].projectId
     /\ \A r \in BagToSet(requests') : r.kind \in ReportKinds => r.projectId # ""]_vars

C20_Witness ==
  /\ ev.op = "ValidationReport.handleDeploy"
  /\ alertMsg = "Project ID not found"
  /\ validationResult = Some([success |-> TRUE, projectId |-> ""])
  /\ requests = EmptyBag

\* C21: when the file list request of a mounted file browser settles with a
\* non-empty list, the list's first file is the selected file and one content
\* request for its path is sent; when it settles with an empty list or fails,
\* no file is selected and no request is sent.
C21_AutoSelectFirstFile ==
  [][\A r \in InFlight :
       (r.kind = "files" /\ r.alive /\ ResponseStep(r)) =>
          IF ev'.outcome = "2xx" /\ browser'.files # <<>>
            THEN /\ browser'.selectedFile = browser'.files[1]
                 /\ requests' = Sent(Settled(requests, r),
                                     ContentFetch(r.projectId, browser'.files[1]))
            ELSE /\ browser'.selectedFile = NoFile
                 /\ requests' = Settled(requests, r)]_vars

C21_Witness ==
  /\ ev = [op |-> "response", kind |-> "files", outcome |-> "2xx"]
  /\ browser.files = <<<<"templates", "index.html">>, <<"api.py">>>>
  /\ browser.selectedFile = <<"templates", "index.html">>
  /\ CopiesIn(ContentFetch(browser.projectId, <<"templates", "index.html">>), requests) = 1
  /\ BagCardinality(requests) = 1

FilesPending == \E r \in InFlight : r.kind = "files" /\ r.alive
ProjectsPending == \E r \in InFlight : r.kind = "projects" /\ r.alive

\* loading is true exactly while the component's list request is pending.
LoadingWhilePending ==
  /\ browser.mounted => (browser.loading <=> FilesPending)
  /\ page = "projects" => (projectsLoading <=> ProjectsPending)

\* C22: in the file browser and on the projects page, loading is true exactly
\* while the list request sent at mount is pending; once false it is not true
\* again while the component is mounted; and a failed list request leaves
\* loading false and the list empty.
C22_LoadingEnds ==
  /\ LoadingWhilePending
  /\ [][/\ LoadingWhilePending'
        /\ (browser.mounted /\ browser'.mounted /\ ~browser.loading) => ~browser'.loading
        /\ (page = "projects" /\ page' = "projects" /\ ~projectsLoading) => ~projectsLoading'
        /\ \A r \in InFlight :
              (r.alive /\ FailureStep(r)) =>
                 /\ r.kind = "files" => (~browser'.loading /\ browser'.files = <<>>)
                 /\ r.kind = "projects" => (~projectsLoading' /\ projects' = <<>>)]_vars

C22_Witness ==
  /\ ev.op = "response"
  /\ ev.kind = "projects"
  /\ Failed(ev.outcome)
  /\ page = "projects"
  /\ ~projectsLoading
  /\ projects = <<>>

\* C25: handleDelete sends no request and changes none of projects,
\* selectedProject and loading, whether the user confirms or cancels.
C25_DeleteDeletesNothing ==
  [][ev'.op = "handleDelete" =>
       /\ requests' = requests
       /\ UNCHANGED <<projects, selectedProject, projectsLoading>>]_vars

C25_Witness ==
  /\ ev.op = "handleDelete"
  /\ alertMsg = "Delete functionality coming soon!"
  /\ Len(projects) = 2

Descending(list) ==
  \A j \in 1..(Len(list) - 1) : list[j].created_at >= list[j + 1].created_at
Occurrences(list, p) == Cardinality({j \in 1..Len(list) : list[j] = p})
SameProjects(a, b) ==
  Len(a) = Len(b) /\ \A p \in {P1, P2, P3} : Occurrences(a, p) = Occurrences(b, p)

\* C24: after a 2xx project list response the held list is in descending
\* order of created_at and holds exactly the projects the backend returned.
C24_ProjectsSortedDescending ==
  [][\A r \in InFlight, data \in ProjectListsUpTo(MaxProjects) :
       (r.alive /\ LoadProjectsResponse(r, "2xx", data)) =>
          /\ Descending(projects')
          /\ SameProjects(projects', data)]_vars

C24_Witness ==
  /\ ev = [op |-> "response", kind |-> "projects", outcome |-> "2xx"]
  /\ projects = <<P3, P2, P1>>
  /\ ~projectsLoading

\* The folder groups the claim describes: the keys of the loaded files, and
\* under each key the files of that key in the order of the list.
Folders(files) == {FolderOf(files[j]) : j \in 1..Len(files)}
FilesIn(files, folder) == SelectSeq(files, LAMBDA f : FolderOf(f) = folder)

\* C23 as stated: once the list is loaded, the file tree is built and has one
\* group for each first path segment ("root" for a path without '/'), each
\* group is not empty and holds the files of its key in the order of the list,
\* so that every file is in exactly one group.
C23_FileTreePartitions ==
  (browser.mounted /\ ~browser.loading) =>
     /\ ~RenderThrows
     /\ DOMAIN fileTree = Folders(browser.files)
     /\ \A folder \in DOMAIN fileTree :
           /\ fileTree[folder] # <<>>
           /\ fileTree[folder] = FilesIn(browser.files, folder)
====
